---- MODULE Spec2Model ----
(***************************************************************************)
(* Model of the two scripts of protocol-silent-night:                      *)
(*                                                                         *)
(*   verification/verify_focus.py  the focus probe: a Playwright run that  *)
(*       launches a browser, opens the game, focuses the MECHA-SANTA card  *)
(*       and takes a screenshot (SpecProbe);                               *)
(*   fix_tests.py                  a patch script that rewrites the click  *)
(*       statements of e2e/full-gameplay.spec.ts with str.replace          *)
(*       (SpecFix).                                                        *)
(*                                                                         *)
(* The two programs share no state; each specification runs one of them    *)
(* and holds the variables of the other at their initial value.            *)
(***************************************************************************)
EXTENDS Integers, Sequences, FiniteSets, TLC

VARIABLES
    \* ---- verify_focus.py ----
    pc,          \* next statement of the __main__ block / verify_focus
    playwright,  \* the sync_playwright() context: "off", "started", "stopped"
    browser,     \* the browser of line 31: "none", "open", "closed"
    page,        \* TRUE once browser.new_page() has returned
    buttons,     \* the <button> elements the game renders, in document order
    loaded,      \* TRUE once page.goto has returned
    santa_card,  \* the locator of lines 20-21: "unset" or "built"
    focused,     \* index in buttons of the focused element, 0 for none
    screenshot,  \* path of the screenshot written, "none" if not written
    stdout,      \* lines printed by the script
    exc,         \* exception in flight: "none" or its class
    log,         \* the calls made so far, with their outcome
    elapsed,     \* time since the start of the run, in ticks
    exit_status, \* "running", "normal" (exit code 0), "crashed" (traceback)
    \* ---- fix_tests.py ----
    fpc,         \* next statement of fix_tests.py
    file,        \* e2e/full-gameplay.spec.ts on disk
    content,     \* the variable content
    runs,        \* completed runs of the script
    history      \* the file at the start, then as each run left it

probeVars == <<pc, playwright, browser, page, buttons, loaded, santa_card,
               focused, screenshot, stdout, exc, log, elapsed, exit_status>>
fixVars   == <<fpc, file, content, runs, history>>
vars      == <<probeVars, fixVars>>

\* ---- bounds ----
MaxButtons  == 3   \* buttons on a rendered page
StepTimeout == 3   \* ticks after which a Playwright call times out
RunBound    == 4   \* the run-level time bound of the specification, in ticks
MaxLines    == 2   \* statements in the gameplay script
MaxRuns     == 2   \* times fix_tests.py is run on the same file

(***************************************************************************)
(* Text matching, as page.get_by_text does it for a string argument:       *)
(* case-insensitive substring.  Texts are sequences of characters.         *)
(***************************************************************************)
UpperChars == <<"A","B","C","D","E","F","G","H","I","J","K","L","M",
                "N","O","P","Q","R","S","T","U","V","W","X","Y","Z">>
LowerChars == <<"a","b","c","d","e","f","g","h","i","j","k","l","m",
                "n","o","p","q","r","s","t","u","v","w","x","y","z">>

LowerOf ==
    [c \in {UpperChars[i] : i \in 1..26} |->
        LowerChars[CHOOSE i \in 1..26 : UpperChars[i] = c]]

Lower(c) == IF c \in DOMAIN LowerOf THEN LowerOf[c] ELSE c

LowerText(t) == [i \in 1..Len(t) |-> Lower(t[i])]

\* the occurrences of needle in text, ignoring case: their start positions
Occurrences(text, needle) ==
    LET lt == LowerText(text)
        ln == LowerText(needle)
    IN  { i \in 1..(Len(text) - Len(needle) + 1) :
            SubSeq(lt, i, i + Len(needle) - 1) = ln }

SantaText == <<"M","E","C","H","A","-","S","A","N","T","A">>
ScreenshotPath == "verification/focus_state.png"

\* page.get_by_text("MECHA-SANTA") under a button: the button's text
\* contains the string, ignoring case
HasSantaText(text) == Occurrences(text, SantaText) # {}

\* page.locator("button").filter(has=santa_text): the matching buttons
Matching(bs) == { i \in 1..Len(bs) : HasSantaText(bs[i]) }

\* a locator without the filter: the first button of the page
FirstUnfiltered(bs) == IF Len(bs) = 0 THEN 0 ELSE 1

\* .first: the first matching button in document order, 0 when none matches
First(bs) ==
    IF Matching(bs) = {} THEN 0
    ELSE CHOOSE i \in Matching(bs) : \A j \in Matching(bs) : i <= j

(***************************************************************************)
(* The rendered page: the texts of its buttons.  The names are those the   *)
(* comment of verify_focus.py line 10 reports, and variants of them.       *)
(***************************************************************************)
MechaSanta     == SantaText
MechaSantaLc   == <<"M","e","c","h","a","-","S","a","n","t","a">>
MechaSantas    == <<"M","E","C","H","A","-","S","A","N","T","A","S">>
SantasWorkshop == <<"S","A","N","T","A","'","S"," ","W","O","R","K","S","H","O","P">>
CyberElf       == <<"C","Y","B","E","R","-","E","L","F">>

ButtonTexts == {MechaSanta, MechaSantaLc, MechaSantas, SantasWorkshop, CyberElf}

Pages == UNION { [1..n -> ButtonTexts] : n \in 0..MaxButtons }

(***************************************************************************)
(* A Playwright call returns, raises playwright Error, or raises           *)
(* TimeoutError when its timeout expires; d is the time the call took.     *)
(***************************************************************************)
Outcomes ==
    [kind : {"ok", "Error"}, d : 1..(StepTimeout - 1)]
        \cup {[kind |-> "TimeoutError", d |-> StepTimeout]}

\* the classes "except Exception" catches
ExceptionClasses == {"Error", "TimeoutError"}

\* verify_focus with the screenshot taken before the card is focused
VerifyStepsSwapped ==
    <<"goto", "wait_for_selector", "locate", "screenshot", "focus">>

\* the statements of verify_focus, in the order of the source
VerifySteps == <<"goto", "wait_for_selector", "locate", "focus", "screenshot">>

StepIndex(s) == CHOOSE i \in 1..Len(VerifySteps) : VerifySteps[i] = s

\* where control goes when a call returns
AfterOk(s) ==
    CASE s = "with_enter" -> "launch"
      [] s = "launch"     -> "new_page"
      [] s = "new_page"   -> VerifySteps[1]
      [] s = "except"     -> "finally"
      [] s = "finally"    -> "with_exit"
      [] s = "with_exit"  -> "done"
      [] OTHER            -> IF StepIndex(s) = Len(VerifySteps)
                             THEN "finally"
                             ELSE VerifySteps[StepIndex(s) + 1]

\* a verify_focus that swallows the exception of a call and goes on
AfterRaiseSwallowed(s) ==
    IF s \in {"launch", "new_page"} THEN "with_exit" ELSE AfterOk(s)

\* where control goes when a call raises: the calls of verify_focus are
\* inside the try of line 33, launch and new_page are not
AfterRaise(s) ==
    IF s \in {"launch", "new_page"} THEN "with_exit" ELSE "except"

Record(s, o) == Append(log, [step |-> s, result |-> o.kind])

\* the effect every call has: it takes time, is logged, and passes control on
Call(s, o) ==
    /\ pc = s
    /\ log' = Record(s, o)
    /\ elapsed' = elapsed + o.d
    /\ pc' = IF o.kind = "ok" THEN AfterOk(s) ELSE AfterRaise(s)
    /\ exc' = IF o.kind = "ok" THEN exc ELSE o.kind

InitProbeVars ==
    /\ pc = "with_enter"
    /\ playwright = "off"
    /\ browser = "none"
    /\ page = FALSE
    /\ loaded = FALSE
    /\ santa_card = "unset"
    /\ focused = 0
    /\ screenshot = "none"
    /\ stdout = <<>>
    /\ exc = "none"
    /\ log = <<>>
    /\ elapsed = 0
    /\ exit_status = "running"

\* line 30: with sync_playwright() as p
EnterWith ==
    /\ pc = "with_enter"
    /\ pc' = AfterOk("with_enter")
    /\ playwright' = "started"
    /\ UNCHANGED <<browser, page, buttons, loaded, santa_card, focused,
                   screenshot, stdout, exc, log, elapsed, exit_status>>
    /\ UNCHANGED fixVars

\* line 31: browser = p.chromium.launch()
Launch ==
    \E o \in Outcomes :
        /\ Call("launch", o)
        /\ browser' = IF o.kind = "ok" THEN "open" ELSE browser
        /\ UNCHANGED <<playwright, page, buttons, loaded, santa_card, focused,
                       screenshot, stdout, exit_status>>
        /\ UNCHANGED fixVars

\* line 32: page = browser.new_page()
NewPage ==
    \E o \in Outcomes :
        /\ Call("new_page", o)
        /\ page' = (o.kind = "ok")
        /\ UNCHANGED <<playwright, browser, buttons, loaded, santa_card,
                       focused, screenshot, stdout, exit_status>>
        /\ UNCHANGED fixVars

\* line 4: page.goto("http://localhost:3000")
Goto ==
    \E o \in Outcomes :
        /\ Call("goto", o)
        /\ loaded' = (o.kind = "ok")
        /\ UNCHANGED <<playwright, browser, page, buttons, santa_card,
                       focused, screenshot, stdout, exit_status>>
        /\ UNCHANGED fixVars

\* line 7: page.wait_for_selector("text=Protocol: Silent Night")
WaitForSelector ==
    \E o \in Outcomes :
        /\ Call("wait_for_selector", o)
        /\ UNCHANGED <<playwright, browser, page, buttons, loaded, santa_card,
                       focused, screenshot, stdout, exit_status>>
        /\ UNCHANGED fixVars

\* lines 20-21: the locators are built; a locator is resolved when it is
\* used, so nothing is looked up and nothing can fail here
Locate ==
    /\ pc = "locate"
    /\ pc' = AfterOk("locate")
    /\ santa_card' = "built"
    /\ log' = Append(log, [step |-> "locate", result |-> "ok"])
    /\ UNCHANGED <<playwright, browser, page, buttons, loaded, focused,
                   screenshot, stdout, exc, elapsed, exit_status>>
    /\ UNCHANGED fixVars

\* line 24: santa_card.focus(): resolves the locator; with no matching
\* button it waits for one until the timeout
Focus ==
    \E o \in Outcomes :
        /\ pc = "focus"
        /\ santa_card = "built"
        /\ (o.kind = "ok") => (First(buttons) # 0)
        /\ Call("focus", o)
        /\ focused' = IF o.kind = "ok" THEN First(buttons) ELSE focused
        /\ UNCHANGED <<playwright, browser, page, buttons, loaded, santa_card,
                       screenshot, stdout, exit_status>>
        /\ UNCHANGED fixVars

\* line 27: page.screenshot(path="verification/focus_state.png")
Screenshot ==
    \E o \in Outcomes :
        /\ Call("screenshot", o)
        /\ screenshot' = IF o.kind = "ok" THEN ScreenshotPath ELSE screenshot
        /\ UNCHANGED <<playwright, browser, page, buttons, loaded, santa_card,
                       focused, stdout, exit_status>>
        /\ UNCHANGED fixVars

\* lines 35-36: except Exception as e: print(f"Error: {e}")
Except ==
    /\ pc = "except"
    /\ exc \in ExceptionClasses
    /\ stdout' = Append(stdout, [prefix |-> "Error: ", e |-> exc])
    /\ exc' = "none"
    /\ pc' = AfterOk("except")
    /\ UNCHANGED <<playwright, browser, page, buttons, loaded, santa_card,
                   focused, screenshot, log, elapsed, exit_status>>
    /\ UNCHANGED fixVars

\* lines 37-38: finally: browser.close()
Finally ==
    \E d \in 1..(StepTimeout - 1) :
        /\ pc = "finally"
        /\ browser' = "closed"
        /\ log' = Append(log, [step |-> "close", result |-> "ok"])
        /\ elapsed' = elapsed + d
        /\ pc' = AfterOk("finally")
        /\ UNCHANGED <<playwright, page, buttons, loaded, santa_card, focused,
                       screenshot, stdout, exc, exit_status>>
        /\ UNCHANGED fixVars

\* a with block whose exit leaves the launched browsers alone
ExitWithoutTeardown ==
    /\ pc = "with_exit"
    /\ playwright' = "stopped"
    /\ exit_status' = IF exc = "none" THEN "normal" ELSE "crashed"
    /\ pc' = AfterOk("with_exit")
    /\ UNCHANGED <<browser, page, buttons, loaded, santa_card, focused,
                   screenshot, stdout, exc, log, elapsed>>
    /\ UNCHANGED fixVars

\* line 30, leaving the with block: the context manager stops the Playwright
\* driver, which closes every browser it launched; an exception in flight
\* then leaves the script with a traceback
ExitWith ==
    /\ pc = "with_exit"
    /\ playwright' = "stopped"
    /\ browser' = IF browser = "open" THEN "closed" ELSE browser
    /\ exit_status' = IF exc = "none" THEN "normal" ELSE "crashed"
    /\ pc' = AfterOk("with_exit")
    /\ UNCHANGED <<page, buttons, loaded, santa_card, focused, screenshot,
                   stdout, exc, log, elapsed>>
    /\ UNCHANGED fixVars

NextProbe ==
    \/ EnterWith
    \/ Launch
    \/ NewPage
    \/ Goto
    \/ WaitForSelector
    \/ Locate
    \/ Focus
    \/ Screenshot
    \/ Except
    \/ Finally
    \/ ExitWith

(***************************************************************************)
(* fix_tests.py.  The script text is a sequence of tokens: the locator     *)
(* expression of a statement, the dispatch call that ends it, a line of    *)
(* other text, or a line terminator.  The strings fix_tests.py searches    *)
(* for and writes are each a locator token followed by a dispatch token.   *)
(***************************************************************************)
RefMechaSanta == "await page.getByRole('button', { name: /MECHA-SANTA/ })"
RefCyberElf   == "await page.getByRole('button', { name: /CYBER-ELF/ })"
RefBumble     == "await page.getByRole('button', { name: /BUMBLE/ })"
RefCommenceI  == "await page.getByRole('button', { name: /COMMENCE OPERATION/i })"
RefCommence   == "await page.getByRole('button', { name: /COMMENCE OPERATION/ })"
RefPlayAgain  == "await page.getByRole('button', { name: /PLAY AGAIN/i })"

ClickForceNoWait == ".click({ force: true, noWaitAfter: true });"
ClickForce       == ".click({ force: true });"
ClickNative      == ".click();"
Evaluate         == ".evaluate(el => el.click());"

OtherLine == "await page.waitForTimeout(1000);"
LF   == "\n"
CRLF == "\r\n"

Refs       == {RefMechaSanta, RefCyberElf, RefBumble, RefCommenceI,
               RefCommence, RefPlayAgain}
Dispatches == {ClickForceNoWait, ClickForce, ClickNative, Evaluate}

\* the statements a line of the script can hold
Statements == { <<r, d>> : r \in Refs, d \in Dispatches } \cup { <<OtherLine>> }

RECURSIVE Flatten(_, _)
Flatten(lines, eol) ==
    IF lines = <<>> THEN <<>>
    ELSE Head(lines) \o <<eol>> \o Flatten(Tail(lines), eol)

\* the scripts the file can hold: up to MaxLines statements, with LF or CRLF
\* line ends throughout
Scripts ==
    { Flatten(ls, eol) :
        ls \in UNION { [1..n -> Statements] : n \in 0..MaxLines },
        eol \in {LF, CRLF} }

\* open(file_path, 'r').read(): text mode translates every line end to "\n"
RECURSIVE ReadText(_)
ReadText(s) ==
    IF s = <<>> THEN <<>>
    ELSE <<(IF Head(s) = CRLF THEN LF ELSE Head(s))>> \o ReadText(Tail(s))

\* does old occur in s at position 1
StartsWith(s, old) ==
    /\ Len(old) <= Len(s)
    /\ SubSeq(s, 1, Len(old)) = old

\* str.replace(old, new): every non-overlapping occurrence, leftmost first
RECURSIVE Replace(_, _, _)
Replace(s, old, new) ==
    IF s = <<>> THEN <<>>
    ELSE IF StartsWith(s, old)
         THEN new \o Replace(SubSeq(s, Len(old) + 1, Len(s)), old, new)
         ELSE <<Head(s)>> \o Replace(Tail(s), old, new)

\* the arguments of the five content.replace calls
Old1 == <<RefMechaSanta, ClickForceNoWait>>
New1 == <<RefMechaSanta, Evaluate>>
Old2 == <<RefCyberElf, ClickForceNoWait>>
\* the replacement of line 18 pasted from line 12 without renaming the unit
New2Pasted == <<RefMechaSanta, Evaluate>>
New2 == <<RefCyberElf, Evaluate>>
Old3 == <<RefBumble, ClickForceNoWait>>
New3 == <<RefBumble, Evaluate>>
Old4 == <<RefCommenceI, ClickForceNoWait>>
New4 == <<RefCommenceI, Evaluate>>
Old5 == <<RefCommenceI, ClickForce>>
\* a replacement that writes the other forced click instead of evaluate
New5Forced == <<RefCommenceI, ClickForceNoWait>>
New5 == <<RefCommenceI, Evaluate>>

InitFixVars ==
    /\ fpc = "read"
    /\ content = <<>>
    /\ runs = 0
    /\ history = <<file>>

\* lines 6-7: content = f.read()
Read ==
    /\ fpc = "read"
    /\ content' = ReadText(file)
    /\ fpc' = "replace1"
    /\ UNCHANGED <<file, runs, history>>
    /\ UNCHANGED probeVars

\* one content.replace statement
ReplaceStep(at, old, new, next) ==
    /\ fpc = at
    /\ content' = Replace(content, old, new)
    /\ fpc' = next
    /\ UNCHANGED <<file, runs, history>>
    /\ UNCHANGED probeVars

\* lines 10-13
Replace1 == ReplaceStep("replace1", Old1, New1, "replace2")
\* lines 16-19
Replace2 == ReplaceStep("replace2", Old2, New2, "replace3")
\* lines 22-25
Replace3 == ReplaceStep("replace3", Old3, New3, "replace4")
\* lines 33-36
Replace4 == ReplaceStep("replace4", Old4, New4, "replace5")
\* lines 37-40
Replace5 == ReplaceStep("replace5", Old5, New5, "write")

\* lines 42-43: f.write(content)
Write ==
    /\ fpc = "write"
    /\ file' = content
    /\ runs' = runs + 1
    /\ history' = Append(history, content)
    /\ fpc' = "exited"
    /\ UNCHANGED content
    /\ UNCHANGED probeVars

\* the script is run again on the file it left
RunAgain ==
    /\ fpc = "exited"
    /\ runs < MaxRuns
    /\ fpc' = "read"
    /\ UNCHANGED <<file, content, runs, history>>
    /\ UNCHANGED probeVars

NextFix ==
    \/ Read
    \/ Replace1
    \/ Replace2
    \/ Replace3
    \/ Replace4
    \/ Replace5
    \/ Write
    \/ RunAgain

(***************************************************************************)
(* The specifications.                                                     *)
(***************************************************************************)
InitProbe ==
    /\ InitProbeVars
    /\ buttons \in Pages
    /\ file = <<>>
    /\ InitFixVars

InitFix ==
    /\ InitProbeVars
    /\ buttons = <<>>
    /\ file \in Scripts
    /\ InitFixVars

SpecProbe == InitProbe /\ [][NextProbe]_vars

SpecFix == InitFix /\ [][NextFix]_vars

Init == InitProbe \/ InitFix

Next == NextProbe \/ NextFix

Spec == Init /\ [][Next]_vars

(***************************************************************************)
(* Properties of the focus probe (SpecProbe).                              *)
(***************************************************************************)
Failed(i) == log[i].result # "ok"

SomeCallFailed == \E i \in 1..Len(log) : Failed(i)

ProbeCalls == {"goto", "wait_for_selector", "locate", "focus", "screenshot"}

\* C1: whichever call of the run raises (launch, new_page, goto,
\* wait_for_selector, focus, screenshot), the run ends normally and has
\* printed exactly one "Error: ..." line.
C1_EveryExceptionReported ==
    (pc = "done" /\ SomeCallFailed) =>
        /\ exit_status = "normal"
        /\ Len(stdout) = 1
        /\ stdout[1].prefix = "Error: "

\* C2: when the run has ended, whatever the path, no launched browser is
\* still open: a browser that was launched has been closed.
C2_BrowserReleased ==
    (pc = "done") =>
        /\ browser # "open"
        /\ (\E i \in 1..Len(log) : log[i].step = "launch" /\ ~Failed(i))
               => browser = "closed"

\* the run ended after new_page raised, the one path browser.close() is
\* not on
C2_Witness ==
    /\ pc = "done"
    /\ browser = "closed"
    /\ \E i \in 1..Len(log) : log[i].step = "new_page" /\ Failed(i)

\* C3: once a call of verify_focus has failed, no call of verify_focus
\* follows it, none is made twice, and the screenshot is written only in a
\* run where goto, wait_for_selector and focus all succeeded.
C3_FailureAborts ==
    /\ \A i \in 1..Len(log) :
          (log[i].step \in ProbeCalls /\ Failed(i)) =>
              \A j \in (i + 1)..Len(log) : log[j].step \notin ProbeCalls
    /\ \A i, j \in 1..Len(log) : (log[i].step = log[j].step) => (i = j)
    /\ (screenshot # "none") =>
          \A s \in {"goto", "wait_for_selector", "focus"} :
              \E i \in 1..Len(log) : log[i].step = s /\ ~Failed(i)

\* focus failed and the run went on to its end
C3_Witness ==
    /\ pc = "done"
    /\ \E i \in 1..Len(log) : log[i].step = "focus" /\ Failed(i)

ProbeOrder ==
    <<"launch", "new_page", "goto", "wait_for_selector", "locate", "focus",
      "screenshot">>

\* C4: the calls are made in the order launch, new_page, goto,
\* wait_for_selector, locate, focus, screenshot, each only after all the
\* calls before it have returned successfully, and the browser is closed
\* only after the last call made, with no call after it.
C4_StrictOrder ==
    /\ \A i \in 1..Len(log) :
          IF log[i].step = "close"
          THEN i = Len(log)
          ELSE /\ i <= Len(ProbeOrder)
               /\ log[i].step = ProbeOrder[i]
               /\ \A j \in 1..(i - 1) : ~Failed(j)
    /\ (browser = "closed") => (pc \in {"with_exit", "done"})
    /\ (pc \in ProbeCalls) => (browser = "open" /\ ~SomeCallFailed)

\* a run that made all the calls and closed the browser
C4_Witness ==
    /\ pc = "done"
    /\ Len(log) = Len(ProbeOrder) + 1
    /\ ~SomeCallFailed
    /\ browser = "closed"

\* C5: on a page where exactly one button matches the MECHA-SANTA
\* reference, only that button is ever focused, a successful focus call
\* focuses it, the screenshot is written only after it was focused and to
\* verification/focus_state.png, and a run in which no call fails ends with
\* both done.
C5_UniqueMatchFocused ==
    (Cardinality(Matching(buttons)) = 1) =>
        LET u == CHOOSE i \in Matching(buttons) : TRUE
        IN  /\ focused \in {0, u}
            /\ (\E i \in 1..Len(log) : log[i].step = "focus" /\ ~Failed(i))
                   => focused = u
            /\ (screenshot # "none")
                   => (screenshot = "verification/focus_state.png"
                       /\ focused = u)
            /\ (pc = "done" /\ ~SomeCallFailed)
                   => (focused = u
                       /\ screenshot = "verification/focus_state.png")

\* the one matching button is not the first button of the page; it was
\* focused and the screenshot written
C5_Witness ==
    /\ pc = "done"
    /\ Cardinality(Matching(buttons)) = 1
    /\ focused > 1
    /\ focused \in Matching(buttons)
    /\ screenshot = "verification/focus_state.png"

\* a character that is part of a word
IsWordChar(c) == Lower(c) \in {LowerChars[i] : i \in 1..26}

\* the text holds MECHA-SANTA as a whole word: an occurrence with no word
\* character right before or right after it
WholeWord(text) ==
    \E i \in Occurrences(text, SantaText) :
        /\ (i = 1 \/ ~IsWordChar(text[i - 1]))
        /\ (i + Len(SantaText) > Len(text)
              \/ ~IsWordChar(text[i + Len(SantaText)]))

\* the button the disambiguation rule of the specification selects
Preferred(bs) ==
    LET whole == { i \in Matching(bs) : WholeWord(bs[i]) }
        pool  == IF whole # {} THEN whole ELSE Matching(bs)
    IN  IF pool = {} THEN 0
        ELSE CHOOSE i \in pool : \A j \in pool : i <= j

\* C6: when several buttons match, the focused button is the first of those
\* that hold MECHA-SANTA as a whole word, and the first match in document
\* order only when none does; when no button matches, nothing is focused.
C6_WholeWordPreferred ==
    /\ (focused # 0) => (focused = Preferred(buttons))
    /\ (Matching(buttons) = {}) => (focused = 0)

\* C8: the time a run has taken never exceeds the run bound by more than
\* the timeout of one call.
C8_RunBoundEnforced == elapsed <= RunBound + StepTimeout

(***************************************************************************)
(* Properties of fix_tests.py (SpecFix).                                   *)
(***************************************************************************)
\* the interaction steps of a script, in order: each locator expression
\* with the dispatch call that follows it
RECURSIVE StepsOf(_)
StepsOf(toks) ==
    IF Len(toks) < 2 THEN <<>>
    ELSE IF toks[1] \in Refs /\ toks[2] \in Dispatches
         THEN <<[ref |-> toks[1], dispatch |-> toks[2]]>>
                  \o StepsOf(SubSeq(toks, 3, Len(toks)))
         ELSE StepsOf(Tail(toks))

\* the dispatch strategy of a dispatch call
Strategy(d) ==
    CASE d = ".click();" -> "NativePointer"
      [] d = ".click({ force: true });" -> "ForcedNative"
      [] d = ".click({ force: true, noWaitAfter: true });" -> "ForcedNative"
      [] d = ".evaluate(el => el.click());" -> "ScriptInvoked"

\* the locators of the unit-select and operation-start controls
FlakyRefs == {RefMechaSanta, RefCyberElf, RefBumble, RefCommenceI, RefCommence}

\* C7: after fix_tests.py has run, every interaction step on a unit-select
\* control or on the operation-start control is dispatched with
\* ScriptInvoked.
C7_FlakyControlsScriptInvoked ==
    (fpc = "exited") =>
        \A i \in 1..Len(StepsOf(file)) :
            (StepsOf(file)[i].ref \in FlakyRefs)
                => Strategy(StepsOf(file)[i].dispatch) = "ScriptInvoked"

\* the five statements fix_tests.py searches for
TargetStatements ==
    { [ref |-> "await page.getByRole('button', { name: /MECHA-SANTA/ })",
       dispatch |-> ".click({ force: true, noWaitAfter: true });"],
      [ref |-> "await page.getByRole('button', { name: /CYBER-ELF/ })",
       dispatch |-> ".click({ force: true, noWaitAfter: true });"],
      [ref |-> "await page.getByRole('button', { name: /BUMBLE/ })",
       dispatch |-> ".click({ force: true, noWaitAfter: true });"],
      [ref |-> "await page.getByRole('button', { name: /COMMENCE OPERATION/i })",
       dispatch |-> ".click({ force: true, noWaitAfter: true });"],
      [ref |-> "await page.getByRole('button', { name: /COMMENCE OPERATION/i })",
       dispatch |-> ".click({ force: true });"] }

\* a script with its line ends left out
RECURSIVE Unterminated(_)
Unterminated(toks) ==
    IF toks = <<>> THEN <<>>
    ELSE IF Head(toks) \in {LF, CRLF}
         THEN Unterminated(Tail(toks))
         ELSE <<Head(toks)>> \o Unterminated(Tail(toks))

\* the file before and after the last completed run
FileBefore == history[Len(history) - 1]
FileAfter  == history[Len(history)]

\* C9: a run leaves the number and order of the interaction steps and the
\* locator of each as they were, changes only steps that are one of the five
\* statements it searches for, changes nothing of them but the dispatch
\* call, and changes no other text of the script.
C9_OnlyDispatchChanges ==
    (fpc = "exited") =>
        LET b == StepsOf(FileBefore)
            a == StepsOf(FileAfter)
            tb == Unterminated(FileBefore)
            ta == Unterminated(FileAfter)
        IN  /\ FileAfter = file
            /\ Len(a) = Len(b)
            /\ \A i \in 1..Len(b) :
                  /\ a[i].ref = b[i].ref
                  /\ (b[i] \notin TargetStatements) => (a[i] = b[i])
            /\ Len(ta) = Len(tb)
            /\ \A i \in 1..Len(tb) :
                  (ta[i] # tb[i]) =>
                      /\ i > 1
                      /\ [ref |-> tb[i - 1], dispatch |-> tb[i]]
                             \in TargetStatements

\* a run rewrote one step of a script and left another step alone
C9_Witness ==
    /\ fpc = "exited"
    /\ Len(StepsOf(FileBefore)) = 2
    /\ \E i, j \in 1..2 :
          /\ StepsOf(FileAfter)[i] # StepsOf(FileBefore)[i]
          /\ StepsOf(FileBefore)[j] \notin TargetStatements
          /\ StepsOf(FileBefore)[j].ref \in FlakyRefs

\* C10: running fix_tests.py again on the file it has written leaves the
\* file as the first run left it.
C10_Idempotent ==
    (fpc = "exited" /\ runs >= 2) => (file = history[2])

\* the first run rewrote a statement, and a second run has completed
C10_Witness ==
    /\ fpc = "exited"
    /\ runs = 2
    /\ StepsOf(history[2]) # StepsOf(history[1])

====
